---- MODULE Spec2Model ----
(***************************************************************************)
(* BLE-to-MQTT bridge firmware: the orchestrator of firmware/main.py       *)
(* (autonomous scan loop, command dispatch loop, transport reconnect       *)
(* handshake) driving the BleBridge of firmware/ble_bridge.py.             *)
(*                                                                         *)
(* The program runs on one cooperative scheduler: a coroutine runs from    *)
(* one suspension point (an await that really suspends) to the next        *)
(* without interruption.  One action of this module is one such stretch of *)
(* one coroutine; a program counter (dpc, spc, opc, a task's st) names the *)
(* await the coroutine is suspended in.  The dispatch loop has two points  *)
(* that are not suspension points, "raised" and "next"; no other coroutine *)
(* can run while the dispatch loop stands at one of them (DFree).          *)
(*                                                                         *)
(* Calls into the outside world (the transport's publish and subscribe,    *)
(* the GATT stack's connect, discovery, read, write and close) either      *)
(* return or raise; which of the two is chosen nondeterministically.  An   *)
(* event counts as emitted when the program hands it to client.publish.    *)
(***************************************************************************)
EXTENDS Integers, Sequences, FiniteSets, TLC

VARIABLES
    busy,             \* main.py _busy
    scan_paused,      \* main.py _scan_paused
    subs_ready,       \* main.py _subs_ready
    char_subscribed,  \* main.py _char_subscribed
    pending,          \* main.py _pending
    dpc,              \* where the dispatch loop of main() stands
    cur,              \* the command popped last (t, msg), with its arrival number
    prev,             \* whether the command processed before cur was a connect
    polls,            \* sleeps done by handle_connect's busy wait
    log,              \* what the current command has done so far
    spc,              \* where scan_loop stands
    rec,              \* sleeps done by scan_loop's recovery polling
    connected,        \* client.isconnected()
    opc,              \* where the on_connect coroutine stands
    conn,             \* BleBridge._conn
    chars,            \* BleBridge._chars (its keys)
    notify_tasks,     \* BleBridge._notify_tasks
    tasks,            \* the _notify_loop tasks that have not terminated
    radio_active,     \* _ble.active()
    links,            \* GATT links open in the BLE stack
    next_id,          \* number of commands on_message has queued so far
    heard,            \* the advertisements the radio has reported to _irq this cycle
    raw_results,      \* BleBridge.scan's raw_results
    seen,             \* BleBridge.scan's seen, as the merge loop leaves it
    results,          \* what BleBridge.scan returned to scan_loop
    cycle,            \* what the current scan cycle has handed to client.publish
    periph,           \* the characteristics of the peripheral in range
    pin,              \* the argument of the function under evaluation
    pout              \* the value it returned

flagVars   == <<busy, scan_paused, subs_ready, char_subscribed>>
bridgeVars == <<conn, chars, notify_tasks, tasks, radio_active, links>>
scanVars   == <<spc, rec>>
airVars    == <<heard, raw_results, seen, results, cycle>>
pureVars   == <<pin, pout>>
transVars  == <<connected, opc>>
cmdVars    == <<pending, dpc, cur, prev, polls, log, next_id>>
vars == <<busy, scan_paused, subs_ready, char_subscribed, pending, dpc, cur,
          prev, polls, log, spc, rec, connected, opc, conn, chars,
          notify_tasks, tasks, radio_active, links, next_id,
          heard, raw_results, seen, results, cycle, periph, pin, pout>>

(***************************************************************************)
(* Bounds of the model and constants of the program.                       *)
(***************************************************************************)
MaxCmds == 3
MaxQueue == 2
WaitPolls == 2
RecoverPolls == 2
MAX_SCAN_ENTRIES == 2
MaxHeard == 3
MaxAdLen == 5

None == 0

(* The characteristics of the peripheral and the property lists            *)
(* BleBridge.connect derives for them.                                     *)
Chars == {"cn", "ci", "cr"}

(* A peripheral with two characteristics that notify.                      *)
TwoNotifyChars == {"cn", "cm", "ci"}

Peripherals == {Chars, TwoNotifyChars}

Props(c) ==
    CASE c = "cn" -> {"read", "notify"}
      [] c = "cm" -> {"notify"}
      [] c = "ci" -> {"indicate"}
      [] OTHER    -> {"read", "write"}

(* The characteristic names a write/read command can carry.                *)
Uuids == {"cn"}

(* The inbound messages: topic kind and what matters of topic and payload. *)
Msgs ==
    {[kind |-> "connect", arg |-> a] : a \in {"ok", "bad"}}
    \cup {[kind |-> "disconnect", arg |-> ""]}
    \cup {[kind |-> "write", arg |-> u] : u \in Uuids}
    \cup {[kind |-> "read", arg |-> u] : u \in Uuids}

NoLog == [err |-> 0, connected |-> 0, disconnected |-> 0, ops |-> {}, outcome |-> "none"]

Emit(lg, what) ==
    CASE what = "error"        -> [lg EXCEPT !.err = @ + 1]
      [] what = "connected"    -> [lg EXCEPT !.connected = @ + 1]
      [] what = "disconnected" -> [lg EXCEPT !.disconnected = @ + 1]
      [] OTHER                 -> lg

Did(lg, op) == [lg EXCEPT !.ops = @ \cup {op}]

(* The dispatch loop stands at a suspension point.                         *)
DFree == dpc \notin {"raised", "next"}

(***************************************************************************)
(* _norm_uuid (ble_bridge.py).  A string is the sequence of its            *)
(* characters; a UUID object is its width, its hexadecimal digits (most    *)
(* significant first) and the letter case its text is printed in.          *)
(***************************************************************************)
HexLower == <<"0", "1", "2", "3", "4", "5", "6", "7", "8", "9", "a", "b", "c", "d", "e", "f">>

HexUpper == <<"0", "1", "2", "3", "4", "5", "6", "7", "8", "9", "A", "B", "C", "D", "E", "F">>

BT_BASE_SUFFIX ==
    <<"0", "0", "0", "0", "1", "0", "0", "0", "8", "0", "0", "0",
      "0", "0", "8", "0", "5", "f", "9", "b", "3", "4", "f", "b">>

Digits(u) == [i \in 1..Len(u.nib) |-> IF u.upper THEN HexUpper[u.nib[i] + 1] ELSE HexLower[u.nib[i] + 1]]

Dashed(d) ==
    SubSeq(d, 1, 8) \o <<"-">> \o SubSeq(d, 9, 12) \o <<"-">> \o SubSeq(d, 13, 16)
        \o <<"-">> \o SubSeq(d, 17, 20) \o <<"-">> \o SubSeq(d, 21, 32)

(* str(uuid), line 26: "UUID(0x2a9d)" for a 16-bit UUID (two bytes, two    *)
(* digits each) and "UUID('12345678-1234-1234-1234-123456789abc')" for a   *)
(* 128-bit one.                                                            *)
UuidStr(u) ==
    IF u.bits = 16
    THEN <<"U", "U", "I", "D", "(", "0", "x">> \o Digits(u) \o <<")">>
    ELSE <<"U", "U", "I", "D", "(", "'">> \o Dashed(Digits(u)) \o <<"'", ")">>

KeepChar(c) == c

(* str.lower(), on one character.                                          *)
LowerChar(c) ==
    CASE c = "A" -> "a" [] c = "B" -> "b" [] c = "C" -> "c" [] c = "D" -> "d"
      [] c = "E" -> "e" [] c = "F" -> "f" [] c = "U" -> "u" [] c = "I" -> "i"
      [] OTHER -> c

Lower(s) == [i \in 1..Len(s) |-> LowerChar(s[i])]

(* str.replace("-", "")                                                    *)
Undash(s) == SelectSeq(s, LAMBDA c : c # "-")

StartsWith(s, p) == Len(s) >= Len(p) /\ SubSeq(s, 1, Len(p)) = p

EndsWith(s, p) == Len(s) >= Len(p) /\ SubSeq(s, Len(s) - Len(p) + 1, Len(s)) = p

(* Lines 24-33, on the text s of the UUID.                                 *)
norm_uuid(s) ==
    IF StartsWith(s, <<"U", "U", "I", "D", "(", "0", "x">>) /\ EndsWith(s, <<")">>)
    THEN <<"0", "0", "0", "0">> \o Lower(SubSeq(s, 8, Len(s) - 1)) \o BT_BASE_SUFFIX
    ELSE IF StartsWith(s, <<"U", "U", "I", "D", "(", "'">>) /\ EndsWith(s, <<"'", ")">>)
         THEN Lower(Undash(SubSeq(s, 7, Len(s) - 2)))
         ELSE Undash(Lower(s))

(***************************************************************************)
(* BleBridge.scan: the parsing of one advertisement payload (lines 71-100) *)
(* and the merge of the advertisements by address (lines 102-125).  A      *)
(* payload is a sequence of bytes; i is Python's index into it.            *)
(***************************************************************************)
NoMfr == [present |-> FALSE, id |-> 0, data |-> <<>>]

NoAd == [ok |-> TRUE, name |-> <<>>, services |-> <<>>, mfr |-> NoMfr]

(* raw[a:b] of Python, 0 <= a and 0 <= b: the slice stops at the end.      *)
Slice(s, a, b) == SubSeq(s, a + 1, IF b < Len(s) THEN b ELSE Len(s))

Hex2(b) == <<HexLower[(b \div 16) + 1], HexLower[(b % 16) + 1]>>

(* bytes.hex()                                                             *)
RECURSIVE HexOf(_)
HexOf(bs) == IF bs = <<>> THEN <<>> ELSE Hex2(Head(bs)) \o HexOf(Tail(bs))

(* "%04x" % uuid, for a 16-bit value.                                      *)
Hex4(n) == Hex2(n \div 256) \o Hex2(n % 256)

(* bytes.decode("utf-8") succeeds; of the bytes that occur here only those *)
(* below 128 are valid, each a character of its own.                       *)
Utf8Ok(bs) == \A k \in DOMAIN bs : bs[k] < 128

(* Lines 93-95: for j in range(0, len(ad_payload) - 1, 2).                 *)
ServiceList(p) == [k \in 1..(Len(p) \div 2) |-> Hex4(p[2 * k - 1] + 256 * p[2 * k])]

(* Lines 76-100, from index i with the fields ad decoded so far.  Reading  *)
(* ad_payload[0] or ad_payload[1] of a payload cut short raises IndexError *)
(* (line 97): ok becomes FALSE and the loop is left.                       *)
RECURSIVE ParseFrom(_, _, _)
ParseFrom(raw, i, ad) ==
    IF i >= Len(raw)
    THEN ad
    ELSE LET length == raw[i + 1] IN
         IF length = 0 \/ i + 1 >= Len(raw)
         THEN ad
         ELSE LET ad_type == raw[i + 2]
                  ad_payload == Slice(raw, i + 2, i + 1 + length)
              IN  IF ad_type \in {9, 8}
                  THEN ParseFrom(raw, i + length + 1,
                                 [ad EXCEPT !.name = IF Utf8Ok(ad_payload) THEN ad_payload ELSE @])
                  ELSE IF ad_type \in {3, 2}
                  THEN ParseFrom(raw, i + length + 1,
                                 [ad EXCEPT !.services = @ \o ServiceList(ad_payload)])
                  ELSE IF ad_type = 255 /\ length >= 3
                  THEN IF Len(ad_payload) < 2
                       THEN [ad EXCEPT !.ok = FALSE]
                       ELSE ParseFrom(raw, i + length + 1,
                                      [ad EXCEPT !.mfr =
                                          [present |-> TRUE,
                                           id |-> ad_payload[1] + 256 * ad_payload[2],
                                           data |-> HexOf(Slice(ad_payload, 2, Len(ad_payload)))]])
                  ELSE ParseFrom(raw, i + length + 1, ad)

ParseAd(raw) == ParseFrom(raw, 0, NoAd)

(* The truth value of a record's manufacturer_data: None and "" are false. *)
HasData(m) == m.data # <<>>

LastRssi(old, new) == new

(* Lines 105-106: the higher RSSI is kept.                                 *)
MaxRssi(old, new) == IF new > old THEN new ELSE old

(* Lines 112-122: the record of an address seen for the first time.        *)
Entry(adv, ad) ==
    [address |-> adv.addr, name |-> ad.name, rssi |-> adv.rssi,
     services |-> ad.services, mfr |-> ad.mfr]

(* Lines 104-111: an advertisement of an address already seen.             *)
Merged(e, adv, ad) ==
    [e EXCEPT !.rssi = MaxRssi(@, adv.rssi),
              !.name = IF ad.name # <<>> /\ e.name = <<>> THEN ad.name ELSE @,
              !.mfr = IF HasData(ad.mfr) /\ ~HasData(e.mfr) THEN ad.mfr ELSE @]

(* Lines 69-122: the entries of rs from the k-th on, merged into S.        *)
RECURSIVE MergeFrom(_, _, _)
MergeFrom(rs, k, S) ==
    IF k > Len(rs)
    THEN S
    ELSE LET adv == rs[k]
             ad == ParseAd(adv.data)
             mac == adv.addr
         IN  MergeFrom(rs, k + 1,
                       [m \in DOMAIN S \cup {mac} |->
                           IF m # mac THEN S[m]
                           ELSE IF mac \in DOMAIN S THEN Merged(S[mac], adv, ad)
                                ELSE Entry(adv, ad)])

(* Every entry of rs parses without raising.                               *)
AllParse(rs) == \A k \in DOMAIN rs : ParseAd(rs[k].data).ok

NamedOnly(e) == e.name # <<>>

(* Line 125: v["name"] or v.get("manufacturer_data")                       *)
Qualifies(e) == e.name # <<>> \/ HasData(e.mfr)

Surfaced(S) == {e \in {S[m] : m \in DOMAIN S} : Qualifies(e)}

IrqAcceptsOneMore(n) == n <= MAX_SCAN_ENTRIES

(* Line 55: len(raw_results) < _MAX_SCAN_ENTRIES                           *)
IrqAccepts(n) == n < MAX_SCAN_ENTRIES

(* What a scan cycle has handed to client.publish: the payload of its      *)
(* scan/results event, if any, and whether it called publish_error.        *)
NoCycle == [pub |-> <<>>, err |-> FALSE]

NoArg == [kind |-> "none"]

NoValue == [done |-> FALSE]

(***************************************************************************)
(* What the radio hears: advertisement payloads of two addresses.          *)
(***************************************************************************)
AdEmpty == <<>>
AdName == <<2, 9, 65>>
AdOtherName == <<2, 9, 66>>
AdService == <<3, 3, 13, 24>>
AdMfr == <<4, 255, 1, 0, 190>>
AdMfrBare == <<3, 255, 2, 0>>
AdCut == <<3, 255, 1>>

Adverts ==
    {[addr |-> "a1", rssi |-> -80, data |-> d] :
        d \in {AdEmpty, AdName, AdService, AdMfr, AdMfrBare, AdCut}}
    \cup {[addr |-> "a1", rssi |-> -60, data |-> d] : d \in {AdEmpty, AdOtherName}}
    \cup {[addr |-> "a2", rssi |-> -70, data |-> d] : d \in {AdService, AdName}}

(* The program after construction (module globals, BleBridge.__init__).    *)
Idle ==
    /\ busy = FALSE
    /\ scan_paused = FALSE
    /\ subs_ready = FALSE
    /\ char_subscribed = FALSE
    /\ pending = <<>>
    /\ dpc = "idle"
    /\ cur = [id |-> 0, kind |-> "none", arg |-> ""]
    /\ prev = "other"
    /\ polls = 0
    /\ log = NoLog
    /\ spc = "sleep"
    /\ rec = 0
    /\ connected = TRUE
    /\ opc = "start"
    /\ conn = None
    /\ chars = {}
    /\ notify_tasks = {}
    /\ tasks = {}
    /\ radio_active = FALSE
    /\ links = {}
    /\ next_id = 0
    /\ heard = <<>>
    /\ raw_results = <<>>
    /\ seen = <<>>
    /\ results = {}
    /\ cycle = NoCycle

Init ==
    /\ Idle
    /\ periph = Chars
    /\ pin = NoArg
    /\ pout = NoValue

(***************************************************************************)
(* Transport (mqtt_as, outside the program) and its callbacks.              *)
(***************************************************************************)

(* on_message: the sync callback appends the message to _pending.          *)
OnMessage ==
    /\ DFree
    /\ connected
    /\ next_id < MaxCmds
    /\ Len(pending) < MaxQueue
    /\ \E m \in Msgs :
          pending' = Append(pending, [id |-> next_id + 1, kind |-> m.kind, arg |-> m.arg])
    /\ next_id' = next_id + 1
    /\ UNCHANGED <<flagVars, bridgeVars, scanVars, airVars, pureVars, periph, transVars, dpc, cur, prev, polls, log>>

(* The link to the broker drops; a handshake in progress dies with it.     *)
TransportDrop ==
    /\ DFree
    /\ connected
    /\ connected' = FALSE
    /\ opc' = "off"
    /\ UNCHANGED <<flagVars, bridgeVars, scanVars, airVars, pureVars, periph, cmdVars>>

(* mqtt_as reconnects and creates the on_connect task.                     *)
TransportReconnect ==
    /\ DFree
    /\ ~connected
    /\ connected' = TRUE
    /\ opc' = "start"
    /\ UNCHANGED <<flagVars, bridgeVars, scanVars, airVars, pureVars, periph, cmdVars>>

(* on_connect runs to its first subscribe.                                 *)
OnConnectStart ==
    /\ DFree
    /\ opc = "start"
    /\ subs_ready' = FALSE
    /\ opc' = "sub_connect"
    /\ UNCHANGED <<busy, scan_paused, char_subscribed, bridgeVars, scanVars, airVars, pureVars, periph, cmdVars, connected>>

(* on_connect, from one subscribe to the next.  A subscribe that raises    *)
(* ends the coroutine with _subs_ready still False.  After the last        *)
(* subscribe _subs_ready is set; the publish of the retained status that   *)
(* follows changes nothing of the program's state.                         *)
OnConnectStep ==
    /\ DFree
    /\ opc \in {"sub_connect", "sub_disconnect", "sub_write", "sub_read"}
    /\ \E ok \in BOOLEAN :
          IF ~ok
          THEN /\ opc' = "off"
               /\ subs_ready' = subs_ready
          ELSE CASE opc = "sub_connect" ->
                      /\ opc' = "sub_disconnect"
                      /\ subs_ready' = subs_ready
                 [] opc = "sub_disconnect" /\ char_subscribed ->
                      /\ opc' = "sub_write"
                      /\ subs_ready' = subs_ready
                 [] opc = "sub_write" ->
                      /\ opc' = "sub_read"
                      /\ subs_ready' = subs_ready
                 [] OTHER ->
                      /\ opc' = "off"
                      /\ subs_ready' = TRUE
    /\ UNCHANGED <<busy, scan_paused, char_subscribed, bridgeVars, scanVars, airVars, pureVars, periph, cmdVars, connected>>

(***************************************************************************)
(* scan_loop and BleBridge.scan.                                           *)
(***************************************************************************)

(* Line 108: the transport is connected and the subscriptions are ready.   *)
TransportUp == connected /\ subs_ready

ScanIgnoresPause == busy

(* Line 112: a GATT session is active or another BLE operation runs.       *)
ScanDeferred == scan_paused \/ busy

(* The loop wakes from a sleep and sleeps again: transport not ready       *)
(* (line 109), paused or busy (line 113), or less than 5 s since the last  *)
(* scan (line 119; the clock is the environment's).                        *)
ScanSleepAgain ==
    /\ DFree
    /\ spc = "sleep"
    /\ \E tooSoon \in BOOLEAN : ~TransportUp \/ ScanDeferred \/ tooSoon
    /\ UNCHANGED vars

(* Line 141: the results are handed to client.publish on scan/results.     *)
PublishResults(c, r) == [c EXCEPT !.pub = <<r>>]

ScanErrorDropped(c) == c

(* Lines 143-147: the except clause calls publish_error.                   *)
ScanError(c) == [c EXCEPT !.err = TRUE]

(* Lines 122-127 and BleBridge.scan to its sleep: _busy and _subs_ready    *)
(* are written, the radio is activated and the scan started.  gap_scan may *)
(* raise (controller init failed): the radio stays active and the cycle    *)
(* goes to its except clause, suspended in publish_error.                  *)
ScanStart ==
    /\ DFree
    /\ spc = "sleep"
    /\ TransportUp
    /\ ~ScanDeferred
    /\ busy' = TRUE
    /\ subs_ready' = FALSE
    /\ radio_active' = TRUE
    /\ rec' = 0
    /\ \E started \in BOOLEAN :
          /\ spc' = IF started THEN "scanning" ELSE "pub_error"
          /\ cycle' = IF started THEN NoCycle ELSE ScanError(NoCycle)
    /\ heard' = <<>>
    /\ raw_results' = <<>>
    /\ seen' = <<>>
    /\ results' = {}
    /\ UNCHANGED <<scan_paused, char_subscribed, conn, chars, notify_tasks, tasks,
                   links, transVars, cmdVars, pureVars, periph>>

(* _irq (lines 53-57): the radio reports an advertisement during the scan; *)
(* it is appended unless the buffer is full.                               *)
Irq ==
    /\ spc = "scanning"
    /\ Len(heard) < MaxHeard
    /\ \E adv \in Adverts :
          /\ heard' = Append(heard, adv)
          /\ raw_results' = IF IrqAccepts(Len(raw_results))
                            THEN Append(raw_results, adv)
                            ELSE raw_results
    /\ UNCHANGED <<flagVars, bridgeVars, scanVars, seen, results, cycle, pureVars, periph,
                   transVars, cmdVars>>

(* One iteration of the recovery polling (lines 133-140) and what follows  *)
(* it: TRUE when the loop breaks, with the value _subs_ready then has.     *)
RecoveryBreaks == connected

RecoveredReady == IF connected THEN TRUE ELSE subs_ready

(* BleBridge.scan resumes from its sleep: the scan is stopped (a failure   *)
(* to stop it is swallowed, lines 63-66), the advertisements parsed and    *)
(* merged, the radio deactivated (which ends every GATT link) and          *)
(* scan_loop enters its recovery polling.  Parsing raises on a truncated   *)
(* manufacturer field (line 97): the radio stays active and the cycle goes *)
(* to its except clause.                                                   *)
ScanFinish ==
    /\ DFree
    /\ spc = "scanning"
    /\ raw_results' = <<>>
    /\ heard' = heard
    /\ IF ~AllParse(raw_results)
       THEN /\ spc' = "pub_error"
            /\ cycle' = ScanError(cycle)
            /\ UNCHANGED <<subs_ready, rec, radio_active, links, seen, results>>
       ELSE /\ seen' = MergeFrom(raw_results, 1, <<>>)
            /\ results' = Surfaced(seen')
            /\ radio_active' = FALSE
            /\ links' = {}
            /\ subs_ready' = RecoveredReady
            /\ IF RecoveryBreaks
               THEN spc' = "pub_results" /\ rec' = 0 /\ cycle' = PublishResults(cycle, results')
               ELSE spc' = "recover" /\ rec' = 1 /\ cycle' = cycle
    /\ UNCHANGED <<busy, scan_paused, char_subscribed, conn, chars, notify_tasks, tasks,
                   transVars, cmdVars, pureVars, periph>>

(* The recovery polling resumes from a sleep: after RecoverPolls sleeps    *)
(* the loop is over and the results are published regardless.              *)
ScanRecover ==
    /\ DFree
    /\ spc = "recover"
    /\ IF rec >= RecoverPolls
       THEN /\ spc' = "pub_results" /\ rec' = 0 /\ subs_ready' = subs_ready
            /\ cycle' = PublishResults(cycle, results)
       ELSE /\ subs_ready' = RecoveredReady
            /\ IF RecoveryBreaks
               THEN spc' = "pub_results" /\ rec' = 0 /\ cycle' = PublishResults(cycle, results)
               ELSE spc' = "recover" /\ rec' = rec + 1 /\ cycle' = cycle
    /\ UNCHANGED <<busy, scan_paused, char_subscribed, bridgeVars, transVars, cmdVars,
                   heard, raw_results, seen, results, pureVars, periph>>

ScanFinallyKeepsBusy == busy

(* Line 150: what _busy becomes in scan_loop's finally clause.             *)
ScanFinallyBusy == FALSE

(* Lines 148-150, finally: the cycle is over, _busy is released and the    *)
(* loop sleeps; what the cycle heard and produced is gone.                 *)
CycleOver ==
    /\ spc' = "sleep"
    /\ busy' = ScanFinallyBusy
    /\ heard' = <<>>
    /\ raw_results' = <<>>
    /\ seen' = <<>>
    /\ results' = {}
    /\ cycle' = NoCycle

(* The publish of scan/results returns (finally: _busy = False, then the   *)
(* loop sleeps, the last scan being less than 5 s ago) or raises (except:  *)
(* publish_error).                                                         *)
ScanPublished ==
    /\ DFree
    /\ spc = "pub_results"
    /\ \E ok \in BOOLEAN :
          IF ok
          THEN CycleOver
          ELSE /\ spc' = "pub_error" /\ busy' = busy
               /\ cycle' = ScanError(cycle)
               /\ UNCHANGED <<heard, raw_results, seen, results>>
    /\ UNCHANGED <<scan_paused, subs_ready, char_subscribed, rec, bridgeVars, transVars,
                   cmdVars, pureVars, periph>>

(* publish_error returns (it swallows a failed publish); finally.          *)
ScanFailed ==
    /\ DFree
    /\ spc = "pub_error"
    /\ CycleOver
    /\ UNCHANGED <<scan_paused, subs_ready, char_subscribed, rec, bridgeVars, transVars,
                   cmdVars, pureVars, periph>>

(***************************************************************************)
(* BleBridge: session teardown and notify forwarding.                      *)
(***************************************************************************)

(* The tasks of one session that forward: start_notify is called for the   *)
(* characteristics whose property list holds "notify" (main.py line 185).  *)
Forwarded(cs) == {c \in cs : "notify" \in Props(c)}

(* The tasks that still forward (not cancelled, not terminated).           *)
ActiveTasks == {t \in tasks : t.st \in {"wait", "publish"}}

CancelNone(ts, held) == ts

(* disconnect, lines 201-203: every task of the list is cancelled (a       *)
(* cancelled task ends when it next runs) and the list cleared.            *)
CancelAll(ts, held) ==
    {IF [id |-> t.id, ch |-> t.ch] \in held THEN [t EXCEPT !.st = "cancelled"] ELSE t : t \in ts}

CloseFailurePropagates == FALSE

(* disconnect, lines 206-209: a failure to close the link is swallowed.    *)
CloseFailureSwallowed == TRUE

(* disconnect, lines 205-207: the close of the link is awaited when the    *)
(* slot holds a connection; it suspends only if the link is still up (the  *)
(* close of a link that is down returns at once).                          *)
CloseSuspends == conn # None /\ conn \in links

DisconnectKeepsRadio == radio_active

(* disconnect, lines 214-218: _ble.active(False), whatever the radio's     *)
(* state and whether or not there was a session.                           *)
DisconnectRadio == FALSE

(* task.cancel() (line 202) puts the task at the head of the scheduler's   *)
(* queue with CancelledError pending: it runs, and ends, before the        *)
(* coroutine that cancelled it resumes from its next suspension.           *)
CancelledRan == \A t \in tasks : t.st # "cancelled"

(* start_notify for every forwarded characteristic of the session sid      *)
(* (main.py lines 184-193, ble_bridge.py lines 166-184).                   *)
StartNotify(sid, cs) ==
    /\ tasks' = tasks \cup {[id |-> sid, ch |-> c, st |-> "wait"] : c \in Forwarded(cs)}
    /\ notify_tasks' = notify_tasks \cup {[id |-> sid, ch |-> c] : c \in Forwarded(cs)}

(* _notify_loop's loop condition: self._conn and self._conn.is_connected() *)
SessionAlive == conn # None /\ conn \in links

FailureEndsSession(ts, t) == {x \in ts : x.id # t.id}

(* _notify_loop, lines 181-182: an exception other than CancelledError is  *)
(* caught and printed, and the task ends; ts is the set of tasks and t the *)
(* task that failed.                                                       *)
AfterFailure(ts, t) == ts \ {t}

(* A notification arrives for a waiting task: it calls publish_fn.         *)
TaskNotified ==
    /\ DFree
    /\ \E t \in tasks :
          /\ t.st = "wait"
          /\ t.id \in links
          /\ tasks' = (tasks \ {t}) \cup {[t EXCEPT !.st = "publish"]}
    /\ UNCHANGED <<flagVars, conn, chars, notify_tasks, radio_active, links, scanVars, airVars, pureVars, periph,
                   transVars, cmdVars>>

(* publish_fn returns: the loop goes on while the session is alive, and    *)
(* ends otherwise; publish_fn raises: the task logs and ends.              *)
TaskPublished ==
    /\ DFree
    /\ \E t \in tasks :
          /\ t.st = "publish"
          /\ \E ok \in BOOLEAN :
                tasks' = IF ~ok
                         THEN AfterFailure(tasks, t)
                         ELSE IF SessionAlive
                              THEN (tasks \ {t}) \cup {[t EXCEPT !.st = "wait"]}
                              ELSE tasks \ {t}
    /\ UNCHANGED <<flagVars, conn, chars, notify_tasks, radio_active, links, scanVars, airVars, pureVars, periph,
                   transVars, cmdVars>>

(* char.notified raises (its 60 s timeout, or the link is gone): the task  *)
(* logs and ends, and nothing else learns of it.                           *)
TaskFailed ==
    /\ DFree
    /\ \E t \in tasks :
          /\ t.st = "wait"
          /\ tasks' = AfterFailure(tasks, t)
    /\ UNCHANGED <<flagVars, conn, chars, notify_tasks, radio_active, links, scanVars, airVars, pureVars, periph,
                   transVars, cmdVars>>

(* A cancelled task runs: CancelledError is raised in it and it ends.      *)
TaskCancelled ==
    /\ DFree
    /\ \E t \in tasks :
          /\ t.st = "cancelled"
          /\ tasks' = tasks \ {t}
    /\ UNCHANGED <<flagVars, conn, chars, notify_tasks, radio_active, links, scanVars, airVars, pureVars, periph,
                   transVars, cmdVars>>

(* The peripheral drops the link.                                          *)
PeerDrop ==
    /\ DFree
    /\ links # {}
    /\ \E l \in links : links' = links \ {l}
    /\ UNCHANGED <<flagVars, conn, chars, notify_tasks, tasks, radio_active, scanVars, airVars, pureVars, periph,
                   transVars, cmdVars>>

(***************************************************************************)
(* main(): the dispatch loop, and the command handlers.                    *)
(***************************************************************************)

PopLast(q) == Len(q)

(* Line 233: _pending.pop(0).                                              *)
PopIndex(q) == 1

Without(q, i) == [k \in 1..(Len(q) - 1) |-> IF k < i THEN q[k] ELSE q[k + 1]]

(* Lines 232-233: the loop, awake, finds a command queued and pops it.     *)
Pop(c) ==
    /\ dpc \in {"idle", "next"}
    /\ pending # <<>>
    /\ c = pending[PopIndex(pending)]
    /\ pending' = Without(pending, PopIndex(pending))
    /\ cur' = c
    /\ prev' = IF cur.kind = "connect" THEN "connect" ELSE "other"
    /\ next_id' = next_id

ConnectFailKeepsPause == TRUE

(* Line 197: what _scan_paused becomes when the connect sequence fails.    *)
ConnectFailPaused == FALSE

BusyAbortKeepsPause == TRUE

(* Line 165: what _scan_paused becomes when the busy wait gives up.        *)
BusyAbortPaused == FALSE

BusyAbortFallsThrough == FALSE

(* Line 167: the busy abort returns from the handler.                      *)
BusyAbortReturns == TRUE

ConnectSkipsDisconnect == FALSE

(* Line 175: handle_connect disconnects any existing connection first.     *)
ConnectDisconnectsFirst == TRUE

DisconnectKeepsPause == scan_paused

(* Line 208: what _scan_paused becomes in handle_disconnect.               *)
DisconnectPaused == FALSE

PublishErrorPropagates == FALSE

(* Lines 94-95: publish_error swallows a failure of its own publish.       *)
PublishErrorSwallows == TRUE

ConnectFinallyKeepsBusy == busy

(* Line 200: what _busy becomes in handle_connect's finally clause.        *)
ConnectFinallyBusy == FALSE

(* Lines 196-200: except (resume scanning, re-raise) and finally; the      *)
(* exception reaches the dispatch boundary.                                *)
ConnectRaise(lg) ==
    /\ scan_paused' = ConnectFailPaused
    /\ busy' = ConnectFinallyBusy
    /\ dpc' = "raised"
    /\ log' = [lg EXCEPT !.outcome = "raised"]

(* BleBridge.disconnect after the link is closed, then BleBridge.connect   *)
(* to its await of device.connect: the slot and the characteristic map are *)
(* cleared, the radio deactivated (ending every link) and activated again. *)
Reconnect(lg) ==
    /\ conn' = None
    /\ chars' = {}
    /\ links' = {}
    /\ radio_active' = TRUE
    /\ dpc' = "c_link"
    /\ log' = Did(lg, "bridge.connect")

(* Lines 168-177, to the first await: _busy is set, the payload decoded,   *)
(* the existing session torn down and the new connection begun.  p is the  *)
(* value _scan_paused has on the way in.                                   *)
ConnectBody(payload, p, lg) ==
    IF payload = "bad"
    THEN /\ ConnectRaise(Did(lg, "busy"))
         /\ UNCHANGED bridgeVars
    ELSE /\ busy' = TRUE
         /\ scan_paused' = p
         /\ IF ~ConnectDisconnectsFirst
            THEN /\ radio_active' = TRUE
                 /\ dpc' = "c_link"
                 /\ log' = Did(Did(lg, "busy"), "bridge.connect")
                 /\ UNCHANGED <<conn, chars, notify_tasks, tasks, links>>
            ELSE /\ tasks' = CancelAll(tasks, notify_tasks)
                 /\ notify_tasks' = {}
                 /\ IF CloseSuspends
                    THEN /\ dpc' = "c_close"
                         /\ log' = Did(Did(lg, "busy"), "bridge.disconnect")
                         /\ UNCHANGED <<conn, chars, radio_active, links>>
                    ELSE Reconnect(Did(Did(lg, "busy"), "bridge.disconnect"))

(* handle_connect from its entry: _scan_paused is set and the busy wait    *)
(* sleeps if a BLE operation is in progress.                               *)
StartConnect ==
    /\ \E c \in {pending[i] : i \in DOMAIN pending} :
          /\ Pop(c)
          /\ c.kind = "connect"
          /\ IF busy
             THEN /\ scan_paused' = TRUE
                  /\ polls' = 1
                  /\ dpc' = "c_wait"
                  /\ log' = NoLog
                  /\ UNCHANGED <<busy, bridgeVars>>
             ELSE /\ polls' = 0
                  /\ ConnectBody(c.arg, TRUE, NoLog)
    /\ UNCHANGED <<subs_ready, char_subscribed, scanVars, airVars, pureVars, periph, transVars>>

(* The busy wait wakes (lines 160-167): the next of its WaitPolls checks,  *)
(* or, the loop over, the check that gives up with a Busy error.           *)
ConnectPoll ==
    /\ dpc = "c_wait"
    /\ IF ~busy
       THEN /\ ConnectBody(cur.arg, scan_paused, log)
            /\ polls' = 0
       ELSE IF polls < WaitPolls
            THEN /\ polls' = polls + 1
                 /\ UNCHANGED <<busy, scan_paused, dpc, log, bridgeVars>>
            ELSE /\ scan_paused' = BusyAbortPaused
                 /\ dpc' = "c_busy"
                 /\ log' = [Emit(log, "error") EXCEPT !.outcome = "busy"]
                 /\ polls' = 0
                 /\ UNCHANGED <<busy, bridgeVars>>
    /\ UNCHANGED <<subs_ready, char_subscribed, scanVars, airVars, pureVars, periph, transVars, pending, cur, prev, next_id>>

(* publish_error of the Busy error returns; the handler returns.           *)
ConnectBusyDone ==
    /\ dpc = "c_busy"
    /\ IF BusyAbortReturns
       THEN /\ dpc' = "next"
            /\ UNCHANGED <<busy, scan_paused, log, bridgeVars>>
       ELSE ConnectBody(cur.arg, scan_paused, log)
    /\ UNCHANGED <<subs_ready, char_subscribed, scanVars, airVars, pureVars, periph, transVars, pending, cur, prev,
                   polls, next_id>>

(* BleBridge.disconnect's close of the old link returns or raises.         *)
ConnectClosed ==
    /\ dpc = "c_close"
    /\ CancelledRan
    /\ \E ok \in BOOLEAN :
          IF ~ok /\ ~CloseFailureSwallowed
          THEN /\ ConnectRaise(log)
               /\ UNCHANGED <<conn, chars, links, radio_active>>
          ELSE /\ Reconnect(log)
               /\ UNCHANGED <<busy, scan_paused>>
    /\ UNCHANGED <<subs_ready, char_subscribed, notify_tasks, tasks, scanVars, airVars, pureVars, periph, transVars,
                   pending, cur, prev, polls, next_id>>

(* device.connect returns the connection (line 143) or raises.             *)
ConnectLinked ==
    /\ dpc = "c_link"
    /\ CancelledRan
    /\ \E ok \in BOOLEAN :
          IF ok
          THEN /\ conn' = cur.id
               /\ links' = links \cup {cur.id}
               /\ chars' = {}
               /\ dpc' = "c_discover"
               /\ UNCHANGED <<busy, scan_paused, log>>
          ELSE /\ ConnectRaise(log)
               /\ UNCHANGED <<conn, chars, links>>
    /\ UNCHANGED <<subs_ready, char_subscribed, notify_tasks, tasks, radio_active, scanVars, airVars, pureVars, periph,
                   transVars, pending, cur, prev, polls, next_id>>

(* Lines 184-195: start_notify for the forwarded characteristics, then the *)
(* publish of the connected event; or creating a task raises (no memory),  *)
(* which fails the connect sequence.                                       *)
Announce(started) ==
    IF started
    THEN /\ StartNotify(cur.id, periph)
         /\ log' = Emit(log, "connected")
         /\ dpc' = "c_pub"
         /\ UNCHANGED <<busy, scan_paused>>
    ELSE /\ ConnectRaise(log)
         /\ UNCHANGED <<notify_tasks, tasks>>

(* Service and characteristic discovery (lines 147-162) returns or raises. *)
ConnectDiscovered ==
    /\ dpc = "c_discover"
    /\ \E ok, started \in BOOLEAN :
          IF ok /\ conn \in links
          THEN /\ chars' = periph
               /\ IF char_subscribed
                  THEN Announce(started)
                  ELSE /\ dpc' = "c_sub_write"
                       /\ UNCHANGED <<busy, scan_paused, log, notify_tasks, tasks>>
          ELSE /\ ConnectRaise(log)
               /\ UNCHANGED <<chars, notify_tasks, tasks>>
    /\ UNCHANGED <<subs_ready, char_subscribed, conn, radio_active, links, scanVars, airVars, pureVars, periph,
                   transVars, pending, cur, prev, polls, next_id>>

(* Lines 179-182: the subscribes to write/# and read/#.                    *)
ConnectSubscribed ==
    /\ dpc \in {"c_sub_write", "c_sub_read"}
    /\ \E ok, started \in BOOLEAN :
          IF ~ok
          THEN /\ ConnectRaise(log)
               /\ UNCHANGED <<char_subscribed, notify_tasks, tasks>>
          ELSE IF dpc = "c_sub_write"
               THEN /\ dpc' = "c_sub_read"
                    /\ UNCHANGED <<busy, scan_paused, log, char_subscribed, notify_tasks, tasks>>
               ELSE /\ char_subscribed' = TRUE
                    /\ Announce(started)
    /\ UNCHANGED <<subs_ready, conn, chars, radio_active, links, scanVars, airVars, pureVars, periph, transVars,
                   pending, cur, prev, polls, next_id>>

(* The publish of the connected event returns (finally: _busy = False) or  *)
(* raises.                                                                 *)
ConnectPublished ==
    /\ dpc = "c_pub"
    /\ \E ok \in BOOLEAN :
          IF ok
          THEN /\ busy' = ConnectFinallyBusy
               /\ dpc' = "next"
               /\ log' = [log EXCEPT !.outcome = "ok"]
               /\ UNCHANGED scan_paused
          ELSE ConnectRaise(log)
    /\ UNCHANGED <<subs_ready, char_subscribed, bridgeVars, scanVars, airVars, pureVars, periph, transVars, pending,
                   cur, prev, polls, next_id>>

(* handle_disconnect after BleBridge.disconnect has closed the link: the   *)
(* rest of the teardown (lines 210-218 of ble_bridge.py), then lines       *)
(* 207-209: the flags and the publish of the disconnected event.           *)
DisconnectTail(lg) ==
    /\ conn' = None
    /\ chars' = {}
    /\ radio_active' = DisconnectRadio
    /\ links' = {}
    /\ char_subscribed' = FALSE
    /\ scan_paused' = DisconnectPaused
    /\ log' = Emit(lg, "disconnected")
    /\ dpc' = "d_pub"

(* handle_disconnect from its entry: the forwarding tasks are cancelled,   *)
(* and the link, if there is one that is up, closed; otherwise             *)
(* BleBridge.disconnect returns without having suspended.                  *)
StartDisconnect ==
    /\ \E c \in {pending[i] : i \in DOMAIN pending} :
          /\ Pop(c)
          /\ c.kind = "disconnect"
    /\ tasks' = CancelAll(tasks, notify_tasks)
    /\ notify_tasks' = {}
    /\ IF CloseSuspends
       THEN /\ dpc' = "d_close"
            /\ log' = Did(NoLog, "bridge.disconnect")
            /\ UNCHANGED <<conn, chars, radio_active, links, char_subscribed, scan_paused>>
       ELSE DisconnectTail(Did(NoLog, "bridge.disconnect"))
    /\ UNCHANGED <<busy, subs_ready, polls, scanVars, airVars, pureVars, periph, transVars>>

(* The close of the link returns or raises.                                *)
DisconnectClosed ==
    /\ dpc = "d_close"
    /\ CancelledRan
    /\ \E ok \in BOOLEAN :
          IF ~ok /\ ~CloseFailureSwallowed
          THEN /\ dpc' = "raised"
               /\ log' = [log EXCEPT !.outcome = "raised"]
               /\ UNCHANGED <<conn, chars, radio_active, links, char_subscribed, scan_paused>>
          ELSE DisconnectTail(log)
    /\ UNCHANGED <<busy, subs_ready, notify_tasks, tasks, scanVars, airVars, pureVars, periph, transVars, pending,
                   cur, prev, polls, next_id>>

(* A handler's last await returns (the handler returns) or raises.         *)
Finish(ok) ==
    /\ dpc' = IF ok THEN "next" ELSE "raised"
    /\ log' = [log EXCEPT !.outcome = IF ok THEN "ok" ELSE "raised"]

(* The publish of the disconnected event returns or raises.                *)
DisconnectPublished ==
    /\ dpc = "d_pub"
    /\ CancelledRan
    /\ \E ok \in BOOLEAN : Finish(ok)
    /\ UNCHANGED <<flagVars, bridgeVars, scanVars, airVars, pureVars, periph, transVars, pending, cur, prev, polls, next_id>>

(* handle_write: BleBridge.write writes if it holds the characteristic.    *)
StartWrite ==
    /\ \E c \in {pending[i] : i \in DOMAIN pending} :
          /\ Pop(c)
          /\ c.kind = "write"
          /\ dpc' = IF c.arg \in chars THEN "w_op" ELSE "next"
          /\ log' = [NoLog EXCEPT !.outcome = IF c.arg \in chars THEN "none" ELSE "ok"]
    /\ UNCHANGED <<flagVars, bridgeVars, scanVars, airVars, pureVars, periph, transVars, polls>>

(* The GATT write returns or raises.                                       *)
WriteDone ==
    /\ dpc = "w_op"
    /\ \E ok \in BOOLEAN : Finish(ok)
    /\ UNCHANGED <<flagVars, bridgeVars, scanVars, airVars, pureVars, periph, transVars, pending, cur, prev, polls, next_id>>

(* handle_read: BleBridge.read reads if it holds the characteristic and    *)
(* returns b"" otherwise, and the value is published.                      *)
StartRead ==
    /\ \E c \in {pending[i] : i \in DOMAIN pending} :
          /\ Pop(c)
          /\ c.kind = "read"
          /\ dpc' = IF c.arg \in chars THEN "r_op" ELSE "r_pub"
          /\ log' = NoLog
    /\ UNCHANGED <<flagVars, bridgeVars, scanVars, airVars, pureVars, periph, transVars, polls>>

(* The GATT read returns (the response is published) or raises.            *)
ReadDone ==
    /\ dpc = "r_op"
    /\ \E ok \in BOOLEAN :
          IF ok
          THEN dpc' = "r_pub" /\ log' = log
          ELSE Finish(FALSE)
    /\ UNCHANGED <<flagVars, bridgeVars, scanVars, airVars, pureVars, periph, transVars, pending, cur, prev, polls, next_id>>

(* The publish of the read response returns or raises.                     *)
ReadPublished ==
    /\ dpc = "r_pub"
    /\ \E ok \in BOOLEAN : Finish(ok)
    /\ UNCHANGED <<flagVars, bridgeVars, scanVars, airVars, pureVars, periph, transVars, pending, cur, prev, polls, next_id>>

(* Lines 246-247: an exception that escaped the handler is caught and      *)
(* publish_error called, which publishes on the error topic.               *)
DispatchError ==
    /\ dpc = "raised"
    /\ dpc' = "pub_error"
    /\ log' = Emit(log, "error")
    /\ UNCHANGED <<flagVars, bridgeVars, scanVars, airVars, pureVars, periph, transVars, pending, cur, prev, polls, next_id>>

(* publish_error's publish returns or raises; were the failure not         *)
(* swallowed it would leave main() and end the dispatch loop.              *)
ErrorPublished ==
    /\ dpc = "pub_error"
    /\ \E ok \in BOOLEAN : dpc' = IF ok \/ PublishErrorSwallows THEN "next" ELSE "crashed"
    /\ UNCHANGED <<flagVars, bridgeVars, scanVars, airVars, pureVars, periph, transVars, pending, cur, prev, polls, log, next_id>>

(* Line 249: nothing is queued; the loop sleeps 50 ms.                     *)
DispatchSleep ==
    /\ dpc = "next"
    /\ pending = <<>>
    /\ dpc' = "idle"
    /\ UNCHANGED <<flagVars, bridgeVars, scanVars, airVars, pureVars, periph, transVars, pending, cur, prev, polls, log, next_id>>

Next ==
    \/ OnMessage \/ TransportDrop \/ TransportReconnect
    \/ OnConnectStart \/ OnConnectStep
    \/ ScanSleepAgain \/ ScanStart \/ ScanFinish \/ ScanRecover \/ ScanPublished \/ ScanFailed
    \/ TaskNotified \/ TaskPublished \/ TaskFailed \/ TaskCancelled \/ PeerDrop
    \/ StartConnect \/ ConnectPoll \/ ConnectBusyDone \/ ConnectClosed \/ ConnectLinked
    \/ ConnectDiscovered \/ ConnectSubscribed \/ ConnectPublished
    \/ StartDisconnect \/ DisconnectClosed \/ DisconnectPublished
    \/ StartWrite \/ WriteDone \/ StartRead \/ ReadDone \/ ReadPublished
    \/ DispatchError \/ ErrorPublished \/ DispatchSleep

Spec == Init /\ [][Next]_vars

(* The steps of the dispatch loop.  The scheduler runs every coroutine     *)
(* that is ready, and every call the loop awaits returns or raises in the  *)
(* end (the GATT calls and the sleeps are bounded), so a step of the       *)
(* dispatch loop that stays possible is taken, and so is the step that     *)
(* ends a cancelled task.                                                  *)
DispatchNext ==
    \/ StartConnect \/ ConnectPoll \/ ConnectBusyDone \/ ConnectClosed \/ ConnectLinked
    \/ ConnectDiscovered \/ ConnectSubscribed \/ ConnectPublished
    \/ StartDisconnect \/ DisconnectClosed \/ DisconnectPublished
    \/ StartWrite \/ WriteDone \/ StartRead \/ ReadDone \/ ReadPublished
    \/ DispatchError \/ ErrorPublished \/ DispatchSleep

FairSpec == Spec /\ WF_vars(DispatchNext) /\ WF_vars(TaskCancelled)

(* The steps of scan_loop that change the state of the program.  Its       *)
(* sleeps are bounded, BleBridge.scan sleeps for the scan duration and the *)
(* publishes return or raise, so a step of the loop that stays possible is *)
(* taken; the start of a cycle stays possible once the interval since the  *)
(* last scan has passed.                                                   *)
ScanLoopNext == ScanStart \/ ScanFinish \/ ScanRecover \/ ScanPublished \/ ScanFailed

(* The steps of on_connect: each subscribe returns or raises in the end.   *)
HandshakeNext == OnConnectStart \/ OnConnectStep

(* The whole program with every coroutine scheduled.                       *)
LiveSpec ==
    /\ Spec
    /\ WF_vars(DispatchNext) /\ WF_vars(TaskCancelled)
    /\ WF_vars(ScanLoopNext) /\ WF_vars(HandshakeNext)

(***************************************************************************)
(* The scan cycle alone, with the advertisements the radio reports: no     *)
(* command arrives, the transport comes and goes.                          *)
(***************************************************************************)
ScanNext ==
    \/ Irq
    \/ ScanSleepAgain \/ ScanStart \/ ScanFinish \/ ScanRecover \/ ScanPublished \/ ScanFailed
    \/ TransportDrop \/ TransportReconnect \/ OnConnectStart \/ OnConnectStep

ScanSpec == Init /\ [][ScanNext]_vars

(* The whole program before a peripheral of either kind.                   *)
SessionInit ==
    /\ Idle
    /\ periph \in Peripherals
    /\ pin = NoArg
    /\ pout = NoValue

SessionSpec == SessionInit /\ [][Next]_vars

(* The scan cycle alone with scan_loop and on_connect scheduled.           *)
ScanFairSpec == ScanSpec /\ WF_vars(ScanLoopNext) /\ WF_vars(HandshakeNext)

(***************************************************************************)
(* The functions of ble_bridge.py evaluated on their own: _norm_uuid on    *)
(* the UUID of a characteristic (line 149) and the parsing of one          *)
(* advertisement payload (lines 71-100).                                   *)
(***************************************************************************)
Nibbles == {0, 2, 10, 13, 15}

(* 16-bit UUIDs, and 128-bit UUIDs whose digits repeat four.               *)
UuidInputs ==
    {[bits |-> 16, nib |-> <<a, b, c, d>>, upper |-> up] :
        a \in Nibbles, b \in Nibbles, c \in Nibbles, d \in Nibbles, up \in BOOLEAN}
    \cup {[bits |-> 128, nib |-> [i \in 1..32 |-> <<a, b, c, d>>[((i - 1) % 4) + 1]], upper |-> up] :
            a \in Nibbles, b \in Nibbles, c \in Nibbles, d \in Nibbles, up \in BOOLEAN}

AdBytes == {0, 2, 3, 4, 9, 65, 255}

AdInputs == UNION {[1..n -> AdBytes] : n \in 0..MaxAdLen}

PureInit ==
    /\ Idle
    /\ periph = Chars
    /\ \/ \E u \in UuidInputs : pin = [kind |-> "uuid", arg |-> u]
       \/ \E d \in AdInputs : pin = [kind |-> "ad", arg |-> d]
    /\ pout = NoValue

Normalize ==
    /\ pin.kind = "uuid"
    /\ ~pout.done
    /\ pout' = [done |-> TRUE, val |-> norm_uuid(UuidStr(pin.arg))]
    /\ UNCHANGED <<flagVars, bridgeVars, scanVars, airVars, transVars, cmdVars, periph, pin>>

ParseOne ==
    /\ pin.kind = "ad"
    /\ ~pout.done
    /\ pout' = [done |-> TRUE, val |-> ParseAd(pin.arg)]
    /\ UNCHANGED <<flagVars, bridgeVars, scanVars, airVars, transVars, cmdVars, periph, pin>>

PureNext == Normalize \/ ParseOne

PureSpec == PureInit /\ [][PureNext]_vars

(***************************************************************************)
(* Properties.                                                             *)
(***************************************************************************)

(* The awaits of the command handlers in which a radio operation of        *)
(* BleBridge is in flight: closing a link, opening one, discovery, GATT    *)
(* write and read.                                                         *)
CmdRadioInFlight == dpc \in {"c_close", "c_link", "c_discover", "d_close", "w_op", "r_op"}

(* The scan cycle is between its radio activation and its deactivation.    *)
ScanWindow == spc = "scanning"

(* No command handler is executing.                                        *)
NoHandler == dpc \in {"idle", "next"}

(* C1: radio mutual exclusion.  While a scan cycle is between activating   *)
(* and deactivating the radio, no command handler has a radio operation in *)
(* flight and none has switched the radio off under the scan; hence also   *)
(* no scan cycle activates or deactivates the radio while a command's      *)
(* radio operation is in flight.                                           *)
C1_RadioMutex == ScanWindow => (radio_active /\ ~CmdRadioInFlight)

(* C2: when a Connect command's failure reaches the dispatch boundary,     *)
(* scan_paused is false and busy is false.                                 *)
C2_ConnectFailureResumes ==
    (dpc = "raised" /\ cur.kind = "connect") => (~scan_paused /\ ~busy)

C2_Witness ==
    /\ dpc = "raised"
    /\ cur.kind = "connect"
    /\ conn # None
    /\ "bridge.connect" \in log.ops

(* C3: when a Disconnect command processed right after a Connect command   *)
(* has ended, scan_paused is false and the bridge holds no forwarding task *)
(* and none is still forwarding.                                           *)
C3_ConnectThenDisconnect ==
    (dpc = "next" /\ cur.kind = "disconnect" /\ prev = "connect")
        => (~scan_paused /\ notify_tasks = {} /\ ActiveTasks = {})

C3_Witness ==
    /\ dpc = "next"
    /\ cur.kind = "disconnect"
    /\ cur.id = 2
    /\ prev = "connect"
    /\ log.outcome = "ok"
    /\ Did(NoLog, "bridge.disconnect").ops \subseteq log.ops

(* C4: a Connect command that gave up its busy wait has emitted exactly    *)
(* one error event (the Busy error) and no connected event, has called     *)
(* neither BleBridge.disconnect nor BleBridge.connect, has not written     *)
(* busy, and its handler is over: the dispatch loop is suspended in the    *)
(* publish of the error or back at its queue.                              *)
C4_BusyAbort ==
    (cur.kind = "connect" /\ log.outcome = "busy")
        => /\ log.err = 1
           /\ log.connected = 0
           /\ log.ops = {}
           /\ dpc \in {"c_busy", "next", "idle"}

C4_Witness ==
    /\ cur.kind = "connect"
    /\ log.outcome = "busy"
    /\ dpc = "next"
    /\ busy
    /\ pending # <<>>

(* C5 as stated: when the busy wait gives up, scan_paused is still true.   *)
C5_BusyAbortLeavesPaused == dpc = "c_busy" => scan_paused

(* C5, amended: when the busy wait gives up, scan_paused, set to true on   *)
(* entry, has been set back to false.                                      *)
C5_BusyAbortResumes == dpc = "c_busy" => ~scan_paused

C5_Witness == dpc = "c_busy" /\ busy /\ ScanWindow

(* C6: whenever the bridge holds a GATT connection and no command handler  *)
(* is executing, scan_paused is true.                                      *)
C6_SessionKeepsPause == (conn # None /\ NoHandler) => scan_paused

(* C7: the queue holds exactly the commands that have not been started, in *)
(* the order of their arrival: the command started last is number cur.id   *)
(* and the i-th queued one is number cur.id + i, so handlers start in      *)
(* arrival order, one after the other.                                     *)
C7_Fifo ==
    /\ cur.id + Len(pending) = next_id
    /\ \A i \in DOMAIN pending : pending[i].id = cur.id + i

C7_Witness ==
    /\ Len(pending) = 2
    /\ cur.id = 1
    /\ dpc \notin {"idle", "next"}

(* A command whose handler raised has, once the exception is caught,       *)
(* emitted exactly one error event; one whose handler has not raised has   *)
(* emitted none, the Busy error of an aborted Connect apart; and the       *)
(* dispatch loop has not terminated.                                       *)
OneErrorPerFailure ==
    /\ dpc # "crashed"
    /\ log.outcome = "raised" =>
          /\ dpc \in {"raised", "pub_error", "next", "idle"}
          /\ log.err = IF dpc = "raised" THEN 0 ELSE 1
    /\ log.outcome \in {"none", "ok"} => log.err = 0

(* C8: every exception escaping a handler is caught at the dispatch        *)
(* boundary and produces exactly one error event, the dispatch loop never  *)
(* terminates, and every command queued is started in the end, whatever    *)
(* the commands before it did.                                             *)
C8_DispatchBoundary ==
    /\ []OneErrorPerFailure
    /\ \A i \in 1..MaxCmds : (next_id >= i) ~> (cur.id >= i)

C8_Witness ==
    /\ log.outcome = "raised"
    /\ log.err = 1
    /\ dpc = "next"
    /\ pending # <<>>

(* C9: the BLE stack holds at most one GATT link, which is the one in the  *)
(* bridge's slot, and every task still forwarding belongs to that          *)
(* connection: none of an earlier connection survives.                     *)
C9_OneSession ==
    /\ Cardinality(links) <= 1
    /\ links \subseteq {conn} \ {None}
    /\ \A t \in ActiveTasks : t.id = conn

C9_Witness ==
    /\ conn # None
    /\ conn \in links
    /\ dpc = "c_discover"
    /\ prev = "connect"
    /\ char_subscribed
    /\ "bridge.disconnect" \in log.ops

(* C10: once handle_disconnect has done its teardown (it is publishing the *)
(* disconnected event, or is over), there is no GATT session, the          *)
(* characteristic map is empty, the write/read subscription flag and       *)
(* scan_paused are false, and one disconnected event has been emitted.     *)
C10_DisconnectSucceeds ==
    (cur.kind = "disconnect" /\ dpc \in {"d_pub", "raised", "pub_error", "next", "idle"})
        => /\ conn = None
           /\ links = {}
           /\ chars = {}
           /\ ~char_subscribed
           /\ ~scan_paused
           /\ log.disconnected = 1

C10_Witness ==
    /\ cur.kind = "disconnect"
    /\ dpc = "d_pub"
    /\ \E t \in tasks : t.st = "cancelled"

(* BleBridge.scan has returned or raised and the cycle it belongs to is    *)
(* not over: scan_loop is in its recovery polling or in a publish.         *)
ScanExited == spc \in {"recover", "pub_results", "pub_error"}

(* C11: whenever BleBridge.scan has returned or raised (the scan could not *)
(* be started, an advertisement could not be parsed, the scan could not be *)
(* stopped), the radio is inactive.  Checked on the scan cycle alone,      *)
(* where nothing but the scan switches the radio.                          *)
C11_ScanLeavesRadioOff == ScanExited => ~radio_active

(* C12: every scan cycle that starts is answered.  While the cycle is      *)
(* suspended in the publish of scan/results it has handed exactly the list *)
(* BleBridge.scan returned to client.publish, the empty list included;     *)
(* whenever it has raised (starting the scan, parsing, publishing) it has  *)
(* called publish_error; and no cycle ends without one of the two.         *)
C12_CycleAnswered ==
    /\ [](spc = "pub_results" => cycle.pub = <<results>>)
    /\ [](spc = "pub_error" => cycle.err)
    /\ [][(spc # "sleep" /\ spc' = "sleep") => (cycle.pub # <<>> \/ cycle.err)]_vars

C12_Witness ==
    /\ spc = "pub_results"
    /\ heard # <<>>
    /\ results = {}
    /\ cycle.pub = <<{}>>

(* The text is made of the digits 0-9 and a-f only.                        *)
LowerHexText(s) == \A i \in DOMAIN s : \E k \in 1..16 : s[i] = HexLower[k]

(* The digits of a UUID, most significant first, in lower case.            *)
LowerDigits(u) == [i \in 1..Len(u.nib) |-> HexLower[u.nib[i] + 1]]

(* C13: _norm_uuid returns a text of 32 lowercase hexadecimal digits: for  *)
(* a 16-bit UUID 0xWXYZ it is 0000, the four digits in lower case and      *)
(* 00001000800000805f9b34fb; for a 128-bit UUID it is the 32 digits in     *)
(* lower case with no dash; whatever the letter case the UUID is printed   *)
(* in.                                                                     *)
C13_NormUuid ==
    (pin.kind = "uuid" /\ pout.done) =>
        /\ Len(pout.val) = 32
        /\ LowerHexText(pout.val)
        /\ pin.arg.bits = 16 =>
              pout.val = <<"0", "0", "0", "0">> \o LowerDigits(pin.arg)
                            \o <<"0", "0", "0", "0", "1", "0", "0", "0", "8", "0", "0", "0",
                                 "0", "0", "8", "0", "5", "f", "9", "b", "3", "4", "f", "b">>
        /\ pin.arg.bits = 128 => pout.val = LowerDigits(pin.arg)

C13_Witness ==
    /\ pin.kind = "uuid"
    /\ pout.done
    /\ pin.arg.bits = 128
    /\ pin.arg.upper
    /\ pin.arg.nib[1] = 10
    /\ pout.val[1] = "a"

(* BleBridge.scan has returned its results to scan_loop.                   *)
ScanReturned == spc \in {"recover", "pub_results"}

(* The advertisements of the cycle that entered the buffer, in order.      *)
Taken == SubSeq(heard, 1, IF Len(heard) < MAX_SCAN_ENTRIES THEN Len(heard) ELSE MAX_SCAN_ENTRIES)

(* The positions in Taken of the advertisements of address a.              *)
AdsOf(a) == {k \in DOMAIN Taken : Taken[k].addr = a}

First(S) == CHOOSE k \in S : \A j \in S : k <= j

C15_NoiseFilter ==
    ScanReturned =>
        /\ \A r \in results :
              /\ r.address \in DOMAIN seen /\ r = seen[r.address]
              /\ r.name # <<>> \/ r.mfr.data # <<>>
        /\ \A a \in DOMAIN seen :
              IF seen[a].name # <<>> \/ seen[a].mfr.data # <<>>
              THEN seen[a] \in results
              ELSE \A r \in results : r.address # a

C15_Witness ==
    /\ spc = "pub_results"
    /\ DOMAIN seen = {"a1", "a2"}
    /\ seen["a1"].services # <<>>
    /\ seen["a1"].name = <<>>
    /\ ~seen["a1"].mfr.present
    /\ results = {seen["a2"]}

(* C16: the raw buffer never holds more than MAX_SCAN_ENTRIES entries;     *)
(* during the scan it holds the first advertisements of the cycle, those   *)
(* reported once it is full being dropped; and the records merged come     *)
(* from those first advertisements only.                                   *)
C16_RawCap ==
    /\ Len(raw_results) <= MAX_SCAN_ENTRIES
    /\ spc = "scanning" => raw_results = Taken
    /\ ScanReturned =>
          \A a \in DOMAIN seen : \E k \in DOMAIN Taken :
              Taken[k].addr = a /\ Taken[k].rssi <= seen[a].rssi

C16_Witness ==
    /\ spc = "pub_results"
    /\ Len(heard) > MAX_SCAN_ENTRIES
    /\ heard[Len(heard)].addr = "a2"
    /\ heard[Len(heard)].data = AdName
    /\ DOMAIN seen = {"a1"}

(* C17: parsing an advertisement payload never raises: for every byte      *)
(* sequence, one whose last AD structure declares more bytes than remain   *)
(* included, the loop ends with the fields decoded so far.                 *)
C17_ParseNeverFails == (pin.kind = "ad" /\ pout.done) => pout.val.ok

(* C18: when handle_connect has started the forwarding and is publishing   *)
(* the connected event, the bridge holds a forwarding task for every       *)
(* discovered characteristic whose properties include notify or indicate,  *)
(* and for no other characteristic.                                        *)
C18_ForwardsNotifyAndIndicate ==
    dpc = "c_pub" =>
        \A c \in chars :
            ([id |-> conn, ch |-> c] \in notify_tasks)
                <=> (Props(c) \cap {"notify", "indicate"} # {})

(* BleBridge.disconnect returns to handle_disconnect in this step.         *)
DisconnectReturns == dpc # "d_pub" /\ dpc' = "d_pub"

(* The bridge holds no session and the radio is off.                       *)
Torn == conn = None /\ chars = {} /\ notify_tasks = {} /\ ~radio_active

(* C19 as stated: BleBridge.disconnect called with no GATT session leaves  *)
(* the connection slot, the characteristic map, the notify-task list and   *)
(* the radio activation state unchanged, and called on the state a call    *)
(* has left it changes nothing.                                            *)
C19_NoSessionNoOp ==
    /\ [][(DisconnectReturns /\ conn = None) =>
            UNCHANGED <<conn, chars, notify_tasks, radio_active>>]_vars
    /\ [][(DisconnectReturns /\ Torn) =>
            UNCHANGED <<conn, chars, notify_tasks, radio_active>>]_vars

(* C19, amended: BleBridge.disconnect always returns with no session held  *)
(* and the radio deactivated; called with no GATT session it leaves the    *)
(* connection slot, the characteristic map and the notify-task list        *)
(* unchanged and deactivates the radio if it was active; called on the     *)
(* state a call has left it changes nothing.                               *)
C19_DisconnectIdempotent ==
    /\ [][DisconnectReturns => Torn']_vars
    /\ [][(DisconnectReturns /\ conn = None) => UNCHANGED <<conn, chars, notify_tasks>>]_vars
    /\ [][(DisconnectReturns /\ Torn) =>
            UNCHANGED <<conn, chars, notify_tasks, radio_active>>]_vars

C19_Witness ==
    /\ cur.id = 1
    /\ cur.kind = "disconnect"
    /\ dpc = "d_pub"
    /\ spc = "scanning"
    /\ Torn

(* C20: once BleBridge.disconnect has returned (handle_disconnect is       *)
(* publishing the disconnected event, or handle_connect has gone on to     *)
(* open the new link), every forwarding task of the session torn down has  *)
(* terminated.                                                             *)
C20_TeardownSynchronous == dpc \in {"d_pub", "c_link"} => tasks = {}

(***************************************************************************)
(* The scan loop's entry into a cycle.                                     *)
(***************************************************************************)

(* scan_loop leaves its sleep in this step: a cycle starts.                *)
CycleStarts == spc = "sleep" /\ spc' # "sleep"

(* C22: a scan cycle starts (busy set by the scan loop, radio activated)   *)
(* only from a state where the transport is connected, transport_ready is  *)
(* true, scan_paused is false and busy is false, the checks and the write  *)
(* of busy being one uninterrupted stretch of the loop; and the step that  *)
(* starts the cycle has cleared transport_ready by the time                *)
(* BleBridge.scan is suspended.                                            *)
C22_ScanStartsGuarded ==
    [][CycleStarts =>
          /\ connected /\ subs_ready /\ ~scan_paused /\ ~busy
          /\ busy' /\ radio_active' /\ ~subs_ready']_vars

C22_Witness ==
    /\ spc = "scanning"
    /\ busy /\ radio_active /\ ~subs_ready
    /\ dpc = "c_wait"

(***************************************************************************)
(* The pause flag and the connection slot.                                 *)
(***************************************************************************)

(* C26: in every reachable state in which no command handler is executing, *)
(* scan_paused is true only if the connection slot of the bridge is        *)
(* non-empty: no sequence of commands, failures and Busy aborts leaves     *)
(* scan_paused true with no session and no command in flight.              *)
C26_NoLatentPause == (NoHandler /\ scan_paused) => conn # None

C26_Witness ==
    /\ NoHandler
    /\ scan_paused
    /\ conn # None
    /\ next_id = MaxCmds
    /\ cur.kind = "read" /\ log.err = 1
    /\ prev = "connect"

(***************************************************************************)
(* transport_ready and the reconnect handshake.                            *)
(***************************************************************************)

(* on_connect has set _subs_ready False and is suspended in a subscribe.   *)
HandshakeInProgress == opc \in {"sub_connect", "sub_disconnect", "sub_write", "sub_read"}

(* C27: in every reachable state where transport_ready is true the         *)
(* reconnect handshake of the current transport connection is not still    *)
(* suspended in one of its subscribes: the scan loop's manual restore of   *)
(* transport_ready never fires while on_connect is in progress.            *)
C27_ReadyMeansSubscribed == subs_ready => ~HandshakeInProgress

(***************************************************************************)
(* The busy flag.                                                          *)
(***************************************************************************)

(* A scan cycle is in flight: scan_loop is between line 122 and finally.   *)
ScanInFlight == spc # "sleep"

(* A Connect handler is past its busy wait (line 168) and not yet through  *)
(* its finally clause.                                                     *)
ConnectHolds == dpc \in {"c_close", "c_link", "c_discover", "c_sub_write", "c_sub_read", "c_pub"}

(* C21: busy is true only while a scan cycle or a Connect handler past its *)
(* busy wait is in flight, never while both are, so that the end of the    *)
(* cycle or of the handler, by return or by exception, leaves busy false;  *)
(* and busy is never true forever.                                         *)
C21_BusyReleased ==
    /\ [](busy => (ScanInFlight \/ ConnectHolds))
    /\ [](~(ScanInFlight /\ ConnectHolds))
    /\ (busy ~> ~busy)

C21_Witness ==
    /\ ~busy
    /\ dpc = "raised" /\ cur.kind = "connect" /\ "bridge.connect" \in log.ops
    /\ spc = "sleep"
    /\ prev = "connect"

(***************************************************************************)
(* Post-scan transport recovery.                                           *)
(***************************************************************************)

(* C23: the polling after BleBridge.scan runs at most RecoverPolls         *)
(* iterations; and from a state where transport_ready is true and no       *)
(* handshake is due, if the transport stays connected for ever (so that    *)
(* on_connect never fires again), transport_ready is true again after      *)
(* every scan cycle: the scan loop is never left waiting for ever on       *)
(* transport_ready while the transport is connected.                       *)
C23_RecoveryRestoresReady ==
    /\ [](rec <= RecoverPolls)
    /\ []((subs_ready /\ opc = "off" /\ []connected) => []<>subs_ready)

(***************************************************************************)
(* Liveness of the autonomous scanning.                                    *)
(***************************************************************************)

(* No GATT session is held and no command is pending or being handled.     *)
Quiet == conn = None /\ pending = <<>> /\ dpc = "idle"

Ended(t) == \A x \in tasks' : ~(x.id = t.id /\ x.ch = t.ch)

(* C25: when a notify-forwarding task that was waiting for a notification  *)
(* or forwarding one ends (it was not cancelled), nothing else changes:    *)
(* the GATT session stays as it was, the characteristic map and the list   *)
(* of forwarding tasks are unchanged, the forwarding tasks of the other    *)
(* characteristics keep running, and no error event and no command         *)
(* failure results.                                                        *)
C25_ForwardFailureIsolated ==
    [][\A t \in ActiveTasks :
          Ended(t) =>
              /\ tasks' = tasks \ {t}
              /\ UNCHANGED <<conn, links, chars, notify_tasks, radio_active>>
              /\ UNCHANGED <<flagVars, cmdVars, cycle>>]_vars

C25_Witness ==
    /\ conn # None /\ conn \in links
    /\ chars = TwoNotifyChars
    /\ Cardinality({n \in notify_tasks : n.id = conn}) = 2
    /\ Cardinality({t \in ActiveTasks : t.id = conn}) = 1
    /\ dpc = "idle" /\ log.err = 0

====
